---------------------------- MODULE Spec2Model ----------------------------
(***************************************************************************)
(* Gear configurator: the procedural gear mesh generator                   *)
(* (createGearGeometry) and the binary glTF serializer (exportGLB).        *)
(*                                                                         *)
(* Numbers.  A JavaScript number is modelled as a fixed-point integer in   *)
(* units of 1/Scale (0.5 is 500).  Infinity is the sentinel PosInf,        *)
(* -Infinity is NegInf.  A Float32Array element is a number rounded to the *)
(* coarser grid of F32Ulp units, so that the double -> float conversion is *)
(* not the identity.  Counts, indices and byte lengths are plain integers. *)
(*                                                                         *)
(* Arrays.  An array is a sequence.  The two variables that can hold a     *)
(* very long array, mesh and blob, hold it cut into pages of PageSize      *)
(* elements (Pages, At, Length, Slice, Unpaged); element k of the array is *)
(* At(pages, k).                                                           *)
(***************************************************************************)
EXTENDS Integers, Sequences, FiniteSets, TLC

VARIABLES
    phase,        \* "idle" | "generating" | "returned" | "exported"
    params,       \* arguments of the running createGearGeometry call
    i,            \* loop counter of createGearGeometry (segment index)
    vertexIndex,  \* createGearGeometry's running vertex counter
    vertices,     \* createGearGeometry's positions array (x, y, z, x, ...)
    normals,      \* createGearGeometry's normals array
    indices,      \* createGearGeometry's triangle index array
    mesh,         \* the Geometry handed to exportGLB, its arrays in pages
    blob,         \* the bytes of the Blob exportGLB returned, in pages
    gearParams,   \* App's gearParams as of the last render
    pendingUpdates \* App's setGearParams updaters queued since the last render

vars ==
    <<phase, params, i, vertexIndex, vertices, normals, indices, mesh, blob,
      gearParams, pendingUpdates>>

\* the state of the App component
host == <<gearParams, pendingUpdates>>

-----------------------------------------------------------------------------
(* Bounds of the model *)

\* teeth ranges over 0..MaxTeeth
MaxTeeth == 3

\* the number of elements of a page of a long array
PageSize == 1024

-----------------------------------------------------------------------------
(* Fixed-point numbers *)

Scale == 1000

PosInf == 1000000000

NegInf == -PosInf

\* n / d rounded to the nearest integer (d > 0)
RoundDiv(n, d) == (2 * n + d) \div (2 * d)

\* a * b of two fixed-point numbers
Mul(a, b) == RoundDiv(a * b, Scale)

\* a / b of two fixed-point numbers (b > 0)
Div(a, b) == RoundDiv(a * Scale, b)

Abs(x) == IF x < 0 THEN -x ELSE x

\* floor of the square root of n >= 0
RECURSIVE SqrtIter(_, _)
SqrtIter(n, x) ==
    LET y == (x + n \div x) \div 2
    IN  IF y >= x THEN x ELSE SqrtIter(n, y)

ISqrt(n) == IF n <= 0 THEN 0 ELSE SqrtIter(n, n)

\* Math.hypot(x, y) of two fixed-point numbers
Hypot(x, y) ==
    LET s == x * x + y * y
        f == ISqrt(s)
    IN  IF (f + 1) * (f + 1) - s < s - f * f THEN f + 1 ELSE f

\* Math.PI
PI == 3142

TwoPi == 2 * PI

HalfPi == PI \div 2

\* cosine on [0, pi/2] by its Taylor polynomial
CosQ(x) ==
    LET x2 == Mul(x, x)
        x4 == Mul(x2, x2)
        x6 == Mul(x4, x2)
        x8 == Mul(x4, x4)
    IN  Scale - RoundDiv(x2, 2) + RoundDiv(x4, 24)
              - RoundDiv(x6, 720) + RoundDiv(x8, 40320)

\* Math.cos(x), x >= 0
Cos(x) ==
    LET q == x % TwoPi
    IN  IF q <= HalfPi THEN CosQ(q)
        ELSE IF q <= PI THEN -CosQ(PI - q)
        ELSE IF q <= PI + HalfPi THEN -CosQ(q - PI)
        ELSE CosQ(TwoPi - q)

\* Math.sin(x), x >= 0
Sin(x) == Cos(x + TwoPi - HalfPi)


-----------------------------------------------------------------------------
(* createGearGeometry *)

\* outerRadius + toothDepth
toothRadius(p) == p.outerRadius + p.toothDepth

\* (2 * Math.PI) / (teeth * 4); a division by zero gives Infinity
angleStep(p) ==
    IF p.teeth * 4 = 0 THEN PosInf ELSE RoundDiv(TwoPi, p.teeth * 4)

\* the boundary radius at segment boundary k
BoundaryRadius(p, k) ==
    IF k % 4 = 1 \/ k % 4 = 2 THEN toothRadius(p) ELSE p.outerRadius

\* the locals of one loop iteration
SegmentLocals(p, k) ==
    LET angle == k * angleStep(p)
        nextAngle == (k + 1) * angleStep(p)
    IN  [ r1 |-> BoundaryRadius(p, k),
          r2 |-> BoundaryRadius(p, k + 1),
          r3 |-> p.innerRadius,
          z  |-> Mul(p.width, Scale \div 2),
          c1 |-> Cos(angle),     s1 |-> Sin(angle),
          c2 |-> Cos(nextAngle), s2 |-> Sin(nextAngle) ]

\* a / (l || 1)
Normalize(a, l) == IF l = 0 THEN Div(a, Scale) ELSE Div(a, l)

\* the outer face normal (nx_o, ny_o)
OuterNormal(L) ==
    LET n_outer_x == Mul(L.r1, L.s1) + Mul(L.r2, L.s2)
        n_outer_y == -(Mul(L.r1, L.c1) + Mul(L.r2, L.c2))
        l_outer == Hypot(n_outer_x, n_outer_y)
    IN  <<Normalize(n_outer_x, l_outer), Normalize(n_outer_y, l_outer)>>

\* the inner face normal (nx_i, ny_i)
InnerNormal(L) ==
    LET n_inner_x == -(Mul(L.r3, L.s1) + Mul(L.r3, L.s2))
        n_inner_y == Mul(L.r3, L.c1) + Mul(L.r3, L.c2)
        l_inner == Hypot(n_inner_x, n_inner_y)
    IN  <<Normalize(n_inner_x, l_inner), Normalize(n_inner_y, l_inner)>>

\* the 16 positions one iteration pushes: front, back, outer, inner face
SegmentVertices(L) ==
    LET p3a == <<Mul(L.r3, L.c1), Mul(L.r3, L.s1)>>
        p1a == <<Mul(L.r1, L.c1), Mul(L.r1, L.s1)>>
        p2b == <<Mul(L.r2, L.c2), Mul(L.r2, L.s2)>>
        p3b == <<Mul(L.r3, L.c2), Mul(L.r3, L.s2)>>
        zf == <<L.z>>
        zb == <<-L.z>>
    IN  p3a \o zf \o p1a \o zf \o p2b \o zf \o p3b \o zf
     \o p3a \o zb \o p1a \o zb \o p2b \o zb \o p3b \o zb
     \o p1a \o zf \o p1a \o zb \o p2b \o zb \o p2b \o zf
     \o p3a \o zf \o p3b \o zf \o p3b \o zb \o p3a \o zb

\* the 16 normals one iteration pushes
SegmentNormals(L) ==
    LET f == <<0, 0, Scale>>
        b == <<0, 0, -Scale>>
        o == OuterNormal(L) \o <<0>>
        n == InnerNormal(L) \o <<0>>
    IN  f \o f \o f \o f \o b \o b \o b \o b
     \o o \o o \o o \o o \o n \o n \o n \o n

\* SegmentIndices with every index read after the counter's increment
SegmentIndices_AfterIncrement(v) ==
       <<v + 1,  v + 2,  v + 3,  v + 1,  v + 3,  v + 4>>
    \o <<v + 5,  v + 7,  v + 6,  v + 5,  v + 8,  v + 7>>
    \o <<v + 9,  v + 10, v + 11, v + 9,  v + 11, v + 12>>
    \o <<v + 13, v + 14, v + 15, v + 13, v + 15, v + 16>>

\* the 24 indices one iteration pushes, v0f_idx being the counter's value
SegmentIndices(v) ==
       <<v,      v + 1,  v + 2,  v,      v + 2,  v + 3>>
    \o <<v + 4,  v + 6,  v + 5,  v + 4,  v + 7,  v + 6>>
    \o <<v + 8,  v + 9,  v + 10, v + 8,  v + 10, v + 11>>
    \o <<v + 12, v + 13, v + 14, v + 12, v + 14, v + 15>>

\* LoopCondition with <= for <
LoopCondition_OneMore(p, k) == k <= p.teeth * 4

\* the loop condition, i < teeth * 4
LoopCondition(p, k) == k < p.teeth * 4

-----------------------------------------------------------------------------
(* exportGLB: typed arrays and byte encodings *)

\* the spacing of the Float32Array grid, in units of 1/Scale
F32Ulp == 2

\* the number of values of a Uint16Array element
IndexRange == 65536

\* an element of new Float32Array(...): the number rounded to float32
ToFloat32(x) ==
    IF x = PosInf \/ x = NegInf THEN x ELSE RoundDiv(x, F32Ulp) * F32Ulp

\* an element of new Uint16Array(...): the number modulo 2^16
ToUint16(x) == x % IndexRange

\* DataView.setUint32(_, n, true): four bytes, least significant first
U32LE(n) ==
    <<n % 256, (n \div 256) % 256, (n \div 65536) % 256,
      (n \div 16777216) % 256>>

\* DataView.setUint16(_, n, true)
U16LE(n) == <<n % 256, (n \div 256) % 256>>

\* DataView.setFloat32(_, v, true): the four bytes of a float, modelled as
\* the two's complement of the fixed-point number, least significant first
F32LE(v) ==
    IF v >= 0 THEN U32LE(v)
    ELSE LET u == v + 2147483647 + 1
         IN  <<u % 256, (u \div 256) % 256, (u \div 65536) % 256,
               ((u \div 16777216) % 256) + 128>>

\* the bytes written by a loop of setFloat32 over a Float32Array
Float32Bytes(a) ==
    [k \in 1..(4 * Len(a)) |->
        F32LE(a[(k - 1) \div 4 + 1])[((k - 1) % 4) + 1]] \o <<>>

\* the bytes written by a loop of setUint16 over a Uint16Array
Uint16Bytes(a) ==
    [k \in 1..(2 * Len(a)) |->
        U16LE(a[(k - 1) \div 2 + 1])[((k - 1) % 2) + 1]] \o <<>>

Min2(a, b) == IF a <= b THEN a ELSE b

Max2(a, b) == IF a >= b THEN a ELSE b

\* the least of a finite non-empty set of numbers
Least(S) == CHOOSE x \in S : \A y \in S : x <= y

\* the greatest of a finite non-empty set of numbers
Greatest(S) == CHOOSE x \in S : \A y \in S : x >= y

\* the values positions[i * 3 + j] the loop reads for axis j
AxisValues(positions, vertexCount, j) ==
    { positions[v * 3 + j + 1] : v \in 0..(vertexCount - 1) }

\* MinPos with the fold seeded with 0
MinPos_SeededZero(positions, vertexCount) ==
    [j \in 1..3 |->
        Least({0} \cup AxisValues(positions, vertexCount, j - 1))]

\* minPos after the loop: Math.min folded over the axis from Infinity
MinPos(positions, vertexCount) ==
    [j \in 1..3 |->
        Least({PosInf} \cup AxisValues(positions, vertexCount, j - 1))]

\* maxPos after the loop: Math.max folded over the axis from -Infinity
MaxPos(positions, vertexCount) ==
    [j \in 1..3 |->
        Greatest({NegInf} \cup AxisValues(positions, vertexCount, j - 1))]

-----------------------------------------------------------------------------
(* exportGLB: JSON.stringify of the metadata object, as character codes *)

\* {"asset":{"version":"2.0"},"scenes":[{"nodes":[0]}],"nodes":[{"mesh":0}],"meshes":[{"primitives":[{"attributes":{"POSITION":1,"NORMAL":2},"indices":0}]}],"buffers":[{"byteLength":
JsonHead ==
    <<123, 34, 97, 115, 115, 101, 116, 34, 58, 123, 34, 118, 101, 114, 115,
    105, 111, 110, 34, 58, 34, 50, 46, 48, 34, 125, 44, 34, 115, 99, 101,
    110, 101, 115, 34, 58, 91, 123, 34, 110, 111, 100, 101, 115, 34, 58, 91,
    48, 93, 125, 93, 44, 34, 110, 111, 100, 101, 115, 34, 58, 91, 123, 34,
    109, 101, 115, 104, 34, 58, 48, 125, 93, 44, 34, 109, 101, 115, 104,
    101, 115, 34, 58, 91, 123, 34, 112, 114, 105, 109, 105, 116, 105, 118,
    101, 115, 34, 58, 91, 123, 34, 97, 116, 116, 114, 105, 98, 117, 116,
    101, 115, 34, 58, 123, 34, 80, 79, 83, 73, 84, 73, 79, 78, 34, 58, 49,
    44, 34, 78, 79, 82, 77, 65, 76, 34, 58, 50, 125, 44, 34, 105, 110, 100,
    105, 99, 101, 115, 34, 58, 48, 125, 93, 125, 93, 44, 34, 98, 117, 102,
    102, 101, 114, 115, 34, 58, 91, 123, 34, 98, 121, 116, 101, 76, 101,
    110, 103, 116, 104, 34, 58>>

\* }],"bufferViews":[
JsonViews ==
    <<125, 93, 44, 34, 98, 117, 102, 102, 101, 114, 86, 105, 101, 119, 115,
    34, 58, 91>>

\* ],"accessors":[
JsonAccessors ==
    <<93, 44, 34, 97, 99, 99, 101, 115, 115, 111, 114, 115, 34, 58, 91>>

\* ]}
JsonTail ==
    <<93, 125>>

\* {"buffer":
KeyBuffer ==
    <<123, 34, 98, 117, 102, 102, 101, 114, 34, 58>>

\* ,"byteOffset":
KeyByteOffset ==
    <<44, 34, 98, 121, 116, 101, 79, 102, 102, 115, 101, 116, 34, 58>>

\* ,"byteLength":
KeyByteLength ==
    <<44, 34, 98, 121, 116, 101, 76, 101, 110, 103, 116, 104, 34, 58>>

\* ,"target":
KeyTarget ==
    <<44, 34, 116, 97, 114, 103, 101, 116, 34, 58>>

\* {"bufferView":
KeyBufferView ==
    <<123, 34, 98, 117, 102, 102, 101, 114, 86, 105, 101, 119, 34, 58>>

\* ,"componentType":
KeyComponentType ==
    <<44, 34, 99, 111, 109, 112, 111, 110, 101, 110, 116, 84, 121, 112, 101,
    34, 58>>

\* ,"count":
KeyCount ==
    <<44, 34, 99, 111, 117, 110, 116, 34, 58>>

\* ,"type":
KeyType ==
    <<44, 34, 116, 121, 112, 101, 34, 58>>

\* ,"min":
KeyMin ==
    <<44, 34, 109, 105, 110, 34, 58>>

\* ,"max":
KeyMax ==
    <<44, 34, 109, 97, 120, 34, 58>>

\* "SCALAR"
StrScalar ==
    <<34, 83, 67, 65, 76, 65, 82, 34>>

\* "VEC3"
StrVec3 ==
    <<34, 86, 69, 67, 51, 34>>

\* null
StrNull ==
    <<110, 117, 108, 108>>

\* the decimal digits of a natural number
RECURSIVE Digits(_)
Digits(n) ==
    IF n < 10 THEN <<48 + n>> ELSE Digits(n \div 10) \o <<48 + (n % 10)>>

\* the digits of a fraction f / Scale, 0 < f < Scale, without trailing zeros
RECURSIVE FractionDigits(_, _)
FractionDigits(f, unit) ==
    IF f = 0 THEN <<>>
    ELSE <<48 + f \div unit>> \o FractionDigits(f % unit, unit \div 10)

\* JSON.stringify of a number: Infinity and -Infinity become null
JsonNumber(v) ==
    IF v = PosInf \/ v = NegInf THEN StrNull
    ELSE LET a == Abs(v)
             sign == IF v < 0 THEN <<45>> ELSE <<>>
             frac == IF a % Scale = 0 THEN <<>>
                     ELSE <<46>> \o FractionDigits(a % Scale, Scale \div 10)
         IN  sign \o Digits(a \div Scale) \o frac

\* JSON.stringify of an array of three numbers
JsonVec3(v) ==
    <<91>> \o JsonNumber(v[1]) \o <<44>> \o JsonNumber(v[2]) \o <<44>>
           \o JsonNumber(v[3]) \o <<93>>

\* JSON.stringify of a bufferViews element
JsonBufferView(v) ==
    KeyBuffer \o Digits(v.buffer) \o KeyByteOffset \o Digits(v.byteOffset)
    \o KeyByteLength \o Digits(v.byteLength) \o KeyTarget
    \o Digits(v.target) \o <<125>>

\* JSON.stringify of an accessors element
JsonAccessor(a) ==
    KeyBufferView \o Digits(a.bufferView) \o KeyComponentType
    \o Digits(a.componentType) \o KeyCount \o Digits(a.count) \o KeyType
    \o (IF a.type = "SCALAR" THEN StrScalar ELSE StrVec3)
    \o (IF "min" \in DOMAIN a
        THEN KeyMin \o JsonVec3(a.min) \o KeyMax \o JsonVec3(a.max)
        ELSE <<>>)
    \o <<125>>

\* JSON.stringify(json)
JsonStringify(json) ==
    JsonHead \o Digits(json.buffers[1].byteLength) \o JsonViews
    \o JsonBufferView(json.bufferViews[1]) \o <<44>>
    \o JsonBufferView(json.bufferViews[2]) \o <<44>>
    \o JsonBufferView(json.bufferViews[3]) \o JsonAccessors
    \o JsonAccessor(json.accessors[1]) \o <<44>>
    \o JsonAccessor(json.accessors[2]) \o <<44>>
    \o JsonAccessor(json.accessors[3]) \o JsonTail

-----------------------------------------------------------------------------
(* exportGLB *)

\* "glTF"
GlbMagic == 1179937895

\* "JSON"
JsonChunkType == 1313821514

\* "BIN"
BinChunkType == 5130562

\* the byte the JSON chunk is padded with
JsonPadByte == 32

\* new Float32Array(a)
Float32Array(a) == [k \in 1..Len(a) |-> ToFloat32(a[k])] \o <<>>

\* new Uint16Array(a)
Uint16Array(a) == [k \in 1..Len(a) |-> ToUint16(a[k])] \o <<>>

\* BinaryLayout with the offsets counted in elements (length for byteLength)
BinaryLayout_ElementOffsets(positions, normalData, indexData) ==
    LET positionsByteOffset == 0
        normalsByteOffset == Len(positions)
        indicesByteOffset == normalsByteOffset + Len(normalData)
        binaryBufferLength == indicesByteOffset + 2 * Len(indexData)
    IN  [ positionsByteOffset |-> positionsByteOffset,
          normalsByteOffset |-> normalsByteOffset,
          indicesByteOffset |-> indicesByteOffset,
          binaryBufferLength |-> binaryBufferLength ]

\* the byte offsets and the length of the binary buffer
BinaryLayout(positions, normalData, indexData) ==
    LET positionsByteOffset == 0
        normalsByteOffset == 4 * Len(positions)
        indicesByteOffset == normalsByteOffset + 4 * Len(normalData)
        binaryBufferLength == indicesByteOffset + 2 * Len(indexData)
    IN  [ positionsByteOffset |-> positionsByteOffset,
          normalsByteOffset |-> normalsByteOffset,
          indicesByteOffset |-> indicesByteOffset,
          binaryBufferLength |-> binaryBufferLength ]

\* the binary buffer after the three copy loops
BinaryBuffer(positions, normalData, indexData) ==
    Float32Bytes(positions) \o Float32Bytes(normalData)
    \o Uint16Bytes(indexData)

\* the bufferViews of the metadata: indices, positions, normals
BufferViews(lay, positions, normalData, indexData) ==
    << [ buffer |-> 0, byteOffset |-> lay.indicesByteOffset,
         byteLength |-> 2 * Len(indexData), target |-> 34963 ],
       [ buffer |-> 0, byteOffset |-> lay.positionsByteOffset,
         byteLength |-> 4 * Len(positions), target |-> 34962 ],
       [ buffer |-> 0, byteOffset |-> lay.normalsByteOffset,
         byteLength |-> 4 * Len(normalData), target |-> 34962 ] >>

\* the accessors of the metadata: indices, positions, normals
Accessors(indexCount, vertexCount, minPos, maxPos) ==
    << [ bufferView |-> 0, componentType |-> 5123, count |-> indexCount,
         type |-> "SCALAR" ],
       [ bufferView |-> 1, componentType |-> 5126, count |-> vertexCount,
         type |-> "VEC3", min |-> minPos, max |-> maxPos ],
       [ bufferView |-> 2, componentType |-> 5126, count |-> vertexCount,
         type |-> "VEC3" ] >>

\* Math.ceil(jsonByteLength / 4) * 4
JsonChunkLength(jsonByteLength) == ((jsonByteLength + 3) \div 4) * 4

\* TotalByteLength without the binary chunk's 8-byte header
TotalByteLength_OneHeader(jsonChunkLength, binaryChunkLength) ==
    12 + 8 + jsonChunkLength + binaryChunkLength

\* headerByteLength + 8 + jsonChunkLength + 8 + binaryChunkLength
TotalByteLength(jsonChunkLength, binaryChunkLength) ==
    12 + 8 + jsonChunkLength + 8 + binaryChunkLength

\* JsonChunkByte without the padding loop: the buffer's zero bytes stay
JsonChunkByte_NoPadding(jsonBytes, o) ==
    IF o < Len(jsonBytes) THEN jsonBytes[o + 1] ELSE 0

\* the byte written at offset o of the JSON chunk payload
JsonChunkByte(jsonBytes, o) ==
    IF o < Len(jsonBytes) THEN jsonBytes[o + 1] ELSE JsonPadByte

\* the GLB buffer after the header, the JSON chunk and the binary chunk
\* have been written into new ArrayBuffer(totalByteLength)
GlbBuffer(jsonBytes, binaryBuffer, binaryBufferLength) ==
    LET headerByteLength == 12
        jsonChunkLength == JsonChunkLength(Len(jsonBytes))
        binaryChunkLength == binaryBufferLength
        totalByteLength == TotalByteLength(jsonChunkLength, binaryChunkLength)
        header == U32LE(GlbMagic) \o U32LE(2) \o U32LE(totalByteLength)
        jsonHeader == U32LE(jsonChunkLength) \o U32LE(JsonChunkType)
        binHeader == U32LE(binaryChunkLength) \o U32LE(BinChunkType)
        jsonAt == headerByteLength + 8
        binHeaderAt == jsonAt + jsonChunkLength
        binAt == binHeaderAt + 8
    IN  [k \in 1..totalByteLength |->
            LET o == k - 1
            IN  IF o < headerByteLength THEN header[o + 1]
                ELSE IF o < jsonAt THEN jsonHeader[o - headerByteLength + 1]
                ELSE IF o < binHeaderAt
                     THEN JsonChunkByte(jsonBytes, o - jsonAt)
                ELSE IF o < binAt THEN binHeader[o - binHeaderAt + 1]
                ELSE IF o - binAt < Len(binaryBuffer)
                     THEN binaryBuffer[o - binAt + 1]
                ELSE 0] \o <<>>

\* exportGLB({ vertices, normals, indices }): the bytes of the Blob
exportGLB(m) ==
    LET positions == Float32Array(m.vertices)
        normalData == Float32Array(m.normals)
        indexData == Uint16Array(m.indices)
        vertexCount == Len(positions) \div 3
        minPos == MinPos(positions, vertexCount)
        maxPos == MaxPos(positions, vertexCount)
        lay == BinaryLayout(positions, normalData, indexData)
        binaryBuffer == BinaryBuffer(positions, normalData, indexData)
        json == [ buffers |-> << [ byteLength |-> lay.binaryBufferLength ] >>,
                  bufferViews |->
                      BufferViews(lay, positions, normalData, indexData),
                  accessors |->
                      Accessors(Len(indexData), vertexCount, minPos, maxPos) ]
        jsonBytes == JsonStringify(json)
    IN  GlbBuffer(jsonBytes, binaryBuffer, lay.binaryBufferLength)

-----------------------------------------------------------------------------
(* Inputs *)

InnerRadiusValues == {0, 500}

OuterRadiusValues == {500, 1000}

WidthValues == {0, 300}

ToothDepthValues == {-200, 0, 200}

ParamSet ==
    [ innerRadius : InnerRadiusValues, outerRadius : OuterRadiusValues,
      width : WidthValues, teeth : 0..MaxTeeth, toothDepth : ToothDepthValues ]

NoParams ==
    [ innerRadius |-> 0, outerRadius |-> 0, width |-> 0, teeth |-> 0,
      toothDepth |-> 0 ]

EmptyMesh == [ vertices |-> <<>>, normals |-> <<>>, indices |-> <<>> ]

\* Meshes handed to exportGLB directly: every sequence of at most
\* MaxDirectVertices points of PointPool, a unit normal per vertex, and at
\* most MaxDirectTriangles triangles over them.
MaxDirectVertices == 3

MaxDirectTriangles == 2

PointPool == { <<0, 0, 0>>, <<1001, -250, 37>>, <<-1500, 3, 999>> }

RECURSIVE Flatten(_)
Flatten(points) ==
    IF points = <<>> THEN <<>> ELSE Head(points) \o Flatten(Tail(points))

DirectMesh(points, triangles) ==
    [ vertices |-> Flatten(points),
      normals |-> Flatten([k \in 1..Len(points) |-> <<0, 0, Scale>>]),
      indices |->
          [k \in 1..(3 * triangles) |-> (k - 1) % Len(points)] \o <<>> ]

DirectMeshes ==
    { DirectMesh(<<>>, 0) } \cup
    { DirectMesh(points, t) :
        points \in UNION { [1..n -> PointPool] : n \in 1..MaxDirectVertices },
        t \in 0..MaxDirectTriangles }

\* A mesh with one vertex more than a 16-bit index can address, whose last
\* triangle uses the last vertex.
BigMesh ==
    LET n == IndexRange + 1
    IN  [ vertices |-> [k \in 1..(3 * n) |-> ((k * 7) % 13) * 100] \o <<>>,
          normals |->
              [k \in 1..(3 * n) |-> IF k % 3 = 0 THEN Scale ELSE 0] \o <<>>,
          indices |-> <<0, 1, n - 1>> ]

-----------------------------------------------------------------------------
(* Long arrays in pages *)

\* the array s cut into pages of PageSize elements, the last one shorter
Pages(s) ==
    [p \in 1..((Len(s) + PageSize - 1) \div PageSize) |->
        SubSeq(s, (p - 1) * PageSize + 1,
               IF p * PageSize < Len(s) THEN p * PageSize ELSE Len(s))] \o <<>>

\* the length of the paged array
Length(pages) ==
    IF Len(pages) = 0 THEN 0
    ELSE (Len(pages) - 1) * PageSize + Len(pages[Len(pages)])

\* element k (from 1) of the paged array
At(pages, k) == pages[((k - 1) \div PageSize) + 1][((k - 1) % PageSize) + 1]

\* elements a..b of the paged array, as a sequence
Slice(pages, a, b) == [k \in 1..(b - a + 1) |-> At(pages, a + k - 1)] \o <<>>

\* the paged array as one sequence
Unpaged(pages) == Slice(pages, 1, Length(pages))

\* a Geometry with its three arrays in pages, and back
PagedMesh(m) ==
    [ vertices |-> Pages(m.vertices), normals |-> Pages(m.normals),
      indices |-> Pages(m.indices) ]

UnpagedMesh(m) ==
    [ vertices |-> Unpaged(m.vertices), normals |-> Unpaged(m.normals),
      indices |-> Unpaged(m.indices) ]

-----------------------------------------------------------------------------
(* The App component: gearParams and its handlers *)

\* at most MaxPending updaters are queued between two renders
MaxPending == 2

\* useState's initial value; teeth is a number like the others
InitialGearParams ==
    [ innerRadius |-> 500, outerRadius |-> 1000, width |-> 300,
      teeth |-> 12 * Scale, toothDepth |-> 200 ]

\* the values handleParamChange is called with, by parameter
HostInputs ==
    [ innerRadius |-> {300, 700, 1200}, outerRadius |-> {300, 700, 1200},
      width |-> {500}, teeth |-> {2500}, toothDepth |-> {0} ]

\* Math.round
MathRound(x) == RoundDiv(x, Scale)

\* the guards of handleParamChange, on the gearParams of its closure g
Rejected(g, param, value) ==
    \/ param = "innerRadius" /\ value >= g.outerRadius
    \/ param = "outerRadius" /\ value <= g.innerRadius

\* prev => ({ ...prev, [param]: value })
Updater(prev, u) == [prev EXCEPT ![u.param] = u.value]

\* the queued updaters applied in order to the state prev
RECURSIVE ApplyUpdates(_, _)
ApplyUpdates(prev, queue) ==
    IF queue = <<>> THEN prev
    ELSE ApplyUpdates(Updater(prev, Head(queue)), Tail(queue))

\* the arguments handleDownload calls createGearGeometry with
DownloadArguments(g) ==
    [ innerRadius |-> g.innerRadius, outerRadius |-> g.outerRadius,
      width |-> g.width, teeth |-> MathRound(g.teeth),
      toothDepth |-> g.toothDepth ]

-----------------------------------------------------------------------------
(* The state machine *)

Init ==
    /\ phase = "idle"
    /\ params = NoParams
    /\ i = 0
    /\ vertexIndex = 0
    /\ vertices = <<>>
    /\ normals = <<>>
    /\ indices = <<>>
    /\ mesh = PagedMesh(EmptyMesh)
    /\ blob = Pages(<<>>)
    /\ gearParams = InitialGearParams
    /\ pendingUpdates = <<>>

\* a call of createGearGeometry: the arrays and the counter are set up
CreateGearGeometry(p) ==
    /\ phase = "idle"
    /\ phase' = "generating"
    /\ params' = p
    /\ i' = 0
    /\ vertexIndex' = 0
    /\ vertices' = <<>>
    /\ normals' = <<>>
    /\ indices' = <<>>
    /\ UNCHANGED <<mesh, blob, host>>

\* one iteration of the segment loop
EmitSegment ==
    /\ phase = "generating"
    /\ LoopCondition(params, i)
    /\ LET L == SegmentLocals(params, i)
       IN  /\ vertices' = vertices \o SegmentVertices(L)
           /\ normals' = normals \o SegmentNormals(L)
           /\ indices' = indices \o SegmentIndices(vertexIndex)
    /\ vertexIndex' = vertexIndex + 16
    /\ i' = i + 1
    /\ UNCHANGED <<phase, params, mesh, blob, host>>

\* the loop is over: return { vertices, normals, indices }
ReturnGeometry ==
    /\ phase = "generating"
    /\ ~LoopCondition(params, i)
    /\ phase' = "returned"
    /\ mesh' = PagedMesh([ vertices |-> vertices, normals |-> normals,
                           indices |-> indices ])
    /\ UNCHANGED <<params, i, vertexIndex, vertices, normals, indices, blob,
                   host>>

\* handleDownload: the generated geometry is handed to exportGLB
ExportGenerated ==
    /\ phase = "returned"
    /\ phase' = "exported"
    /\ blob' = Pages(exportGLB(UnpagedMesh(mesh)))
    /\ UNCHANGED <<params, i, vertexIndex, vertices, normals, indices, mesh,
                   host>>

\* a call of exportGLB with a mesh of the caller's own
ExportDirect(m) ==
    /\ phase = "idle"
    /\ phase' = "exported"
    /\ mesh' = PagedMesh(m)
    /\ blob' = Pages(exportGLB(m))
    /\ UNCHANGED <<params, i, vertexIndex, vertices, normals, indices, host>>

Next ==
    \/ \E p \in ParamSet : CreateGearGeometry(p)
    \/ EmitSegment
    \/ ReturnGeometry
    \/ ExportGenerated
    \/ \E m \in DirectMeshes \cup {BigMesh} : ExportDirect(m)

Spec == Init /\ [][Next]_vars

\* a call of handleParamChange: the guards read the gearParams of the last
\* render, the accepted update is queued
HandleParamChange(param, value) ==
    /\ phase = "idle"
    /\ Len(pendingUpdates) < MaxPending
    /\ pendingUpdates' =
           IF Rejected(gearParams, param, value) THEN pendingUpdates
           ELSE Append(pendingUpdates, [param |-> param, value |-> value])
    /\ UNCHANGED <<phase, params, i, vertexIndex, vertices, normals, indices,
                   mesh, blob, gearParams>>

\* a render of App: the queued updaters are applied to the state, and the
\* handlers of the new render close over the result
Render ==
    /\ phase = "idle"
    /\ pendingUpdates # <<>>
    /\ gearParams' = ApplyUpdates(gearParams, pendingUpdates)
    /\ pendingUpdates' = <<>>
    /\ UNCHANGED <<phase, params, i, vertexIndex, vertices, normals, indices,
                   mesh, blob>>

\* handleDownload, a click handler of its own event (the updates of earlier
\* events are rendered): it calls createGearGeometry, whose loop and
\* return, and the export that follows, are the steps EmitSegment,
\* ReturnGeometry and ExportGenerated
HandleDownload ==
    /\ pendingUpdates = <<>>
    /\ CreateGearGeometry(DownloadArguments(gearParams))

\* the App component alone: parameter changes, renders and downloads
HostNext ==
    \/ \E param \in DOMAIN HostInputs :
           \E value \in HostInputs[param] : HandleParamChange(param, value)
    \/ Render
    \/ HandleDownload
    \/ EmitSegment
    \/ ReturnGeometry
    \/ ExportGenerated

HostSpec == Init /\ [][HostNext]_vars

-----------------------------------------------------------------------------
(* Properties of createGearGeometry *)

\* the parameters the generator is specified for
ValidParams(p) ==
    /\ p.innerRadius > 0
    /\ p.outerRadius > p.innerRadius
    /\ p.width > 0
    /\ p.teeth >= 3
    /\ p.teeth <= 1000
    /\ p.toothDepth >= 0

\* innerRadius <= 0, outerRadius <= innerRadius, width <= 0, teeth < 3 or
\* toothDepth < 0
InvalidParams(p) ==
    \/ p.innerRadius <= 0
    \/ p.outerRadius <= p.innerRadius
    \/ p.width <= 0
    \/ p.teeth < 3
    \/ p.toothDepth < 0

\* createGearGeometry is running or has returned
GeneratorCalled == phase \in {"generating", "returned"}

\* C1: a call of createGearGeometry with invalid parameters (innerRadius <= 0,
\* outerRadius <= innerRadius, width <= 0, teeth < 3 or toothDepth < 0) ends
\* in a ValidationError: it pushes no vertex, normal or index and returns no
\* mesh.
C1_InvalidParamsRejected ==
    (GeneratorCalled /\ InvalidParams(params)) =>
        /\ phase # "returned"
        /\ vertices = <<>> /\ normals = <<>> /\ indices = <<>>

\* C3: for valid parameters the returned mesh has teeth*4*16 vertices
\* (positions and normals of teeth*4*16*3 numbers each) and teeth*4*24
\* indices.
C3_OutputSize ==
    (phase = "returned" /\ ValidParams(params)) =>
        /\ Length(mesh.vertices) = params.teeth * 4 * 16 * 3
        /\ Length(mesh.normals) = params.teeth * 4 * 16 * 3
        /\ Length(mesh.indices) = params.teeth * 4 * 24

C3_Witness ==
    /\ phase = "returned"
    /\ ValidParams(params)
    /\ i = params.teeth * 4
    /\ Length(mesh.indices) >= 3 * 4 * 24

\* every index of idx addresses one of the vertices of pos, and the indices
\* come in triples
IndicesInRange(pos, idx) ==
    /\ Len(idx) % 3 = 0
    /\ Len(pos) % 3 = 0
    /\ \A k \in 1..Len(idx) : idx[k] \in 0..(Len(pos) \div 3 - 1)

\* C4: after every emitted segment, and in the returned mesh, every index is
\* a natural number below the vertex count, and the number of indices is a
\* multiple of 3.
C4_IndicesInRange ==
    /\ GeneratorCalled => IndicesInRange(vertices, indices)
    /\ phase = "returned" =>
           IndicesInRange(Unpaged(mesh.vertices), Unpaged(mesh.indices))

C4_Witness ==
    /\ phase = "generating"
    /\ i >= 2
    /\ LoopCondition(params, i)
    /\ Len(indices) = i * 24
    /\ indices[Len(indices)] = Len(vertices) \div 3 - 1

\* the normal stored for vertex v (counted from 0) of the normals array n
NormalOf(n, v) == <<n[3 * v + 1], n[3 * v + 2], n[3 * v + 3]>>

\* two numbers that differ by at most 0.02
Close(a, b) == Abs(a - b) <= Scale \div 50

\* the normalized sum of two vectors of the plane, with z = 0
UnitSum(x1, y1, x2, y2) ==
    LET l == Hypot(x1 + x2, y1 + y2)
    IN  <<Div(x1 + x2, l), Div(y1 + y2, l), 0>>

\* the stored normal n is the vector e, component by component
SameNormal(n, e) ==
    Close(n[1], e[1]) /\ Close(n[2], e[2]) /\ n[3] = e[3]

\* C10: in every emitted segment of a gear with valid parameters, the normal
\* of the four outer-face vertices is the normalized sum of the radial unit
\* vectors (cos a, sin a, 0) at the start and the next angle, and the normal
\* of the four inner-face vertices is the normalized sum of the two negated
\* radial unit vectors; both have z = 0.
C10_RadialNormals ==
    (GeneratorCalled /\ ValidParams(params)) =>
        \A seg \in 0..(i - 1) :
            LET L == SegmentLocals(params, seg)
                outward == UnitSum(L.c1, L.s1, L.c2, L.s2)
                inward == UnitSum(-L.c1, -L.s1, -L.c2, -L.s2)
            IN  /\ \A v \in 8..11 :
                       SameNormal(NormalOf(normals, 16 * seg + v), outward)
                /\ \A v \in 12..15 :
                       SameNormal(NormalOf(normals, 16 * seg + v), inward)

\* the position stored for vertex v (counted from 0) of the positions array
PositionOf(pos, v) == <<pos[3 * v + 1], pos[3 * v + 2], pos[3 * v + 3]>>

Minus(a, b) == <<a[1] - b[1], a[2] - b[2], a[3] - b[3]>>

Dot(a, b) == Mul(a[1], b[1]) + Mul(a[2], b[2]) + Mul(a[3], b[3])

Cross(a, b) ==
    <<Mul(a[2], b[3]) - Mul(a[3], b[2]),
      Mul(a[3], b[1]) - Mul(a[1], b[3]),
      Mul(a[1], b[2]) - Mul(a[2], b[1])>>

\* the three vertex numbers of triangle t (from 0) of the index array idx
TriangleOf(idx, t) == <<idx[3 * t + 1], idx[3 * t + 2], idx[3 * t + 3]>>

\* the right-hand-rule normal (not normalized) of the triangle tri
GeometricNormal(pos, tri) ==
    Cross(Minus(PositionOf(pos, tri[2]), PositionOf(pos, tri[1])),
          Minus(PositionOf(pos, tri[3]), PositionOf(pos, tri[1])))

\* the vector from the axis to the first vertex of tri, in the plane z = 0
RadialOf(pos, tri) ==
    <<PositionOf(pos, tri[1])[1], PositionOf(pos, tri[1])[2], 0>>

\* g points out of the solid for face f of a segment (0 front, 1 back,
\* 2 outer, 3 inner) whose first vertex is at radial from the axis
PointsOutward(f, g, radial) ==
    CASE f = 0 -> g[1] = 0 /\ g[2] = 0 /\ g[3] > 0
      [] f = 1 -> g[1] = 0 /\ g[2] = 0 /\ g[3] < 0
      [] f = 2 -> g[3] = 0 /\ Dot(g, radial) > 0
      [] f = 3 -> g[3] = 0 /\ Dot(g, radial) < 0

\* the two triangles of quad q (from 0) have one orientation, and it points
\* out of the solid
WindingOutward(pos, idx, q) ==
    LET g1 == GeometricNormal(pos, TriangleOf(idx, 2 * q))
        g2 == GeometricNormal(pos, TriangleOf(idx, 2 * q + 1))
    IN  /\ Dot(g1, g2) > 0
        /\ PointsOutward(q % 4, g1, RadialOf(pos, TriangleOf(idx, 2 * q)))
        /\ PointsOutward(q % 4, g2, RadialOf(pos, TriangleOf(idx, 2 * q + 1)))

\* the stored normal of every vertex of quad q has a positive dot product
\* with the geometric normal of the quad's triangles
StoredNormalsAgree(pos, nor, idx, q) ==
    \A t \in {2 * q, 2 * q + 1} :
        \A k \in 1..3 :
            Dot(NormalOf(nor, TriangleOf(idx, t)[k]),
                GeometricNormal(pos, TriangleOf(idx, t))) > 0

\* C11: in every emitted segment of a gear with valid parameters, the two
\* triangles of each of the four quads have the same orientation, their
\* right-hand-rule normal points out of the solid (+z front, -z back, away
\* from the axis on the outer face, toward the axis on the inner face), and
\* the stored normal of each vertex has a positive dot product with it.
C11_WindingAndNormals ==
    (GeneratorCalled /\ ValidParams(params)) =>
        \A q \in 0..(4 * i - 1) :
            /\ WindingOutward(vertices, indices, q)
            /\ StoredNormalsAgree(vertices, normals, indices, q)

-----------------------------------------------------------------------------
(* Reading a blob back: the container's fields and the JSON metadata *)

\* the little-endian u32 at byte offset o of the paged bytes b
U32At(b, o) ==
    At(b, o + 1) + 256 * At(b, o + 2) + 65536 * At(b, o + 3)
        + 16777216 * At(b, o + 4)

\* the little-endian u16 at byte offset o of the paged bytes b
U16At(b, o) == At(b, o + 1) + 256 * At(b, o + 2)

\* the float at byte offset o of the paged bytes b
F32At(b, o) ==
    IF At(b, o + 4) < 128 THEN U32At(b, o)
    ELSE (At(b, o + 1) + 256 * At(b, o + 2) + 65536 * At(b, o + 3)
          + 16777216 * (At(b, o + 4) - 128)) - 2147483647 - 1

Exported == phase = "exported"

\* the counts of the mesh that was exported
VertexCount == Length(mesh.vertices) \div 3

IndexCount == Length(mesh.indices)

\* the length field of the JSON chunk, and its payload
DeclaredJsonLength == U32At(blob, 12)

JsonPayload == Slice(blob, 21, 20 + DeclaredJsonLength)

\* where the binary chunk header starts, its length field, and where its
\* payload starts
BinHeaderAt == 20 + DeclaredJsonLength

DeclaredBinLength == U32At(blob, BinHeaderAt)

BinAt == BinHeaderAt + 8

\* the places of t where the byte string key starts
Occurrences(t, key) ==
    { p \in 1..(Len(t) - Len(key) + 1) :
        \A k \in 1..Len(key) : t[p + k - 1] = key[k] }

\* the n-th smallest element of a set of numbers
Nth(S, n) == CHOOSE p \in S : Cardinality({ q \in S : q < p }) = n - 1

\* the natural number written in decimal by the bytes d
RECURSIVE NatOf(_)
NatOf(d) ==
    IF d = <<>> THEN 0
    ELSE 10 * NatOf(SubSeq(d, 1, Len(d) - 1)) + (d[Len(d)] - 48)

\* the first place from p on where t has a byte that is no digit
DigitsEnd(t, p) ==
    CHOOSE q \in p..(Len(t) + 1) :
        /\ q = Len(t) + 1 \/ t[q] \notin 48..57
        /\ \A r \in p..(q - 1) : t[r] \in 48..57

\* the natural number that follows the n-th occurrence of key in t
NatAfter(t, key, n) ==
    LET p == Nth(Occurrences(t, key), n) + Len(key)
    IN  NatOf(SubSeq(t, p, DigitsEnd(t, p) - 1))

RECURSIVE Pow10(_)
Pow10(n) == IF n = 0 THEN 1 ELSE 10 * Pow10(n - 1)

\* the fixed-point value of a JSON number with at most three decimals
DecimalOf(d) ==
    LET neg == d[1] = 45
        body == IF neg THEN Tail(d) ELSE d
        e == DigitsEnd(body, 1)
        whole == NatOf(SubSeq(body, 1, e - 1))
        frac == IF e > Len(body) THEN <<>> ELSE SubSeq(body, e + 1, Len(body))
        a == whole * Scale + NatOf(frac) * Pow10(3 - Len(frac))
    IN  IF neg THEN -a ELSE a

\* the first place from p on where t has a comma or a closing bracket
ElementEnd(t, p) ==
    CHOOSE q \in p..Len(t) :
        /\ t[q] \in {44, 93}
        /\ \A r \in p..(q - 1) : t[r] \notin {44, 93}

\* the three elements, as byte strings, of the array that starts at place p
Vec3Text(t, p) ==
    LET e1 == ElementEnd(t, p + 1)
        e2 == ElementEnd(t, e1 + 1)
        e3 == ElementEnd(t, e2 + 1)
    IN  <<SubSeq(t, p + 1, e1 - 1), SubSeq(t, e1 + 1, e2 - 1),
          SubSeq(t, e2 + 1, e3 - 1)>>

\* the names of the metadata fields, with their colon
NameByteLength == <<34, 98, 121, 116, 101, 76, 101, 110, 103, 116, 104, 34, 58>>

NameByteOffset == <<34, 98, 121, 116, 101, 79, 102, 102, 115, 101, 116, 34, 58>>

NameBufferView == <<34, 98, 117, 102, 102, 101, 114, 86, 105, 101, 119, 34, 58>>

NameComponentType == <<34, 99, 111, 109, 112, 111, 110, 101, 110, 116, 84, 121, 112, 101, 34, 58>>

NameCount == <<34, 99, 111, 117, 110, 116, 34, 58>>

NameMin == <<34, 109, 105, 110, 34, 58>>

NameMax == <<34, 109, 97, 120, 34, 58>>

\* bufferViews[n - 1] of the JSON text t: its byteOffset and byteLength
MetaView(t, n) ==
    [ byteOffset |-> NatAfter(t, NameByteOffset, n),
      byteLength |-> NatAfter(t, NameByteLength, n + 1) ]

\* accessors[n - 1] of the JSON text t: its bufferView, componentType, count
\* and the view it references
MetaAccessor(t, n) ==
    [ bufferView |-> NatAfter(t, NameBufferView, n),
      componentType |-> NatAfter(t, NameComponentType, n),
      count |-> NatAfter(t, NameCount, n),
      view |-> MetaView(t, NatAfter(t, NameBufferView, n) + 1) ]

\* the min (or max) array that follows the name in the JSON text t
MetaBounds(t, name) ==
    LET p == Nth(Occurrences(t, name), 1) + Len(name)
        e == Vec3Text(t, p)
    IN  <<DecimalOf(e[1]), DecimalOf(e[2]), DecimalOf(e[3])>>

\* the metadata read back from the blob: buffers[0].byteLength and the
\* indices, positions and normals accessors
Metadata(t) ==
    [ bufferLength |-> NatAfter(t, NameByteLength, 1),
      idx |-> MetaAccessor(t, 1),
      pos |-> MetaAccessor(t, 2),
      nor |-> MetaAccessor(t, 3) ]

-----------------------------------------------------------------------------
(* Properties of exportGLB *)

\* the 16-bit index stored as element k (from 1) at byte offset o of the
\* binary payload
StoredIndex(o, k) == U16At(blob, BinAt + o + 2 * (k - 1))

\* the float stored as element k (from 1) at byte offset o of the binary
\* payload
StoredFloat(o, k) == F32At(blob, BinAt + o + 4 * (k - 1))

\* every stored index of the view at byte offset o is the input index
IndicesPreserved(o) ==
    \A k \in 1..IndexCount : StoredIndex(o, k) = At(mesh.indices, k)

\* C2: exportGLB returns no blob for a mesh of more than 65536 vertices (it
\* fails with a CapacityError), so every 16-bit index stored in the binary
\* chunk equals the input index it was written from.
C2_CapacityChecked ==
    Exported =>
        /\ VertexCount <= 65536
        /\ IndicesPreserved(MetaAccessor(JsonPayload, 1).view.byteOffset)

\* C5: the blob starts with the magic 0x46546C67 ("glTF"), version 2 and
\* its own byte length, all little-endian u32; that length is
\* 12 + 8 + jsonChunkLength + 8 + binChunkLength; the JSON chunk header is
\* at byte 12 and the binary chunk header at byte 20 + jsonChunkLength.
C5_HeaderAndLengths ==
    Exported =>
        /\ Length(blob) >= BinAt
        /\ Slice(blob, 1, 4) = <<103, 108, 84, 70>>
        /\ Slice(blob, 5, 8) = <<2, 0, 0, 0>>
        /\ U32At(blob, 8) = Length(blob)
        /\ Length(blob) = 12 + 8 + DeclaredJsonLength + 8 + DeclaredBinLength
        /\ Slice(blob, 17, 20) = <<74, 83, 79, 78>>
        /\ Slice(blob, BinHeaderAt + 5, BinHeaderAt + 8) = <<66, 73, 78, 0>>
        /\ DeclaredBinLength >= 24 * VertexCount + 2 * IndexCount

C5_Witness ==
    /\ Exported
    /\ VertexCount > 0
    /\ IndexCount > 0
    /\ U32At(blob, 8) = Length(blob)
    /\ DeclaredBinLength > 0

\* C6: the binary chunk's declared length is a multiple of 4 (a payload of
\* another length is zero-padded to the next multiple of 4, and the length
\* field and the header's total count the padding).
C6_BinaryChunkAligned ==
    Exported => DeclaredBinLength % 4 = 0

\* the place of the last closing brace of t
LastBrace(t) ==
    CHOOSE n \in 1..Len(t) :
        t[n] = 125 /\ \A k \in (n + 1)..Len(t) : t[k] # 125

\* the number of bytes among the first n of t that are one of the bytes cs
CountOf(t, n, cs) == Cardinality({ k \in 1..n : t[k] \in cs })

\* t is a JSON text of n bytes (one object, from its opening brace to the
\* closing brace that matches it) followed by 0 to 3 bytes 0x20, and the
\* whole is a multiple of 4 long
PaddedJson(t, n) ==
    /\ Len(t) % 4 = 0
    /\ Len(t) - n \in 0..3
    /\ t[1] = 123
    /\ CountOf(t, n, {123, 91}) = CountOf(t, n, {125, 93})
    /\ \A k \in (n + 1)..Len(t) : t[k] = 32

\* C7: the JSON chunk's declared length is the smallest multiple of 4 that
\* is at least the length of the JSON text; the payload starts with the JSON
\* text and every byte after it, 0 to 3 of them, is 0x20.
C7_JsonChunkPadding ==
    Exported =>
        /\ Len(JsonPayload) = DeclaredJsonLength
        /\ PaddedJson(JsonPayload, LastBrace(JsonPayload))

C7_Witness ==
    /\ Exported
    /\ VertexCount > 0
    /\ DeclaredJsonLength - LastBrace(JsonPayload) = 3
    /\ At(blob, 20 + DeclaredJsonLength) = 32

\* the float f is the number x rounded to float32
IsFloat32Of(f, x) == f % F32Ulp = 0 /\ 2 * Abs(f - x) <= F32Ulp

\* the metadata m describes the binary payload: positions, normals, indices
LayoutHolds(m) ==
    /\ <<m.idx.bufferView, m.pos.bufferView, m.nor.bufferView>> = <<0, 1, 2>>
    /\ <<m.idx.componentType, m.pos.componentType, m.nor.componentType>>
           = <<5123, 5126, 5126>>
    /\ m.pos.view = [byteOffset |-> 0, byteLength |-> 12 * VertexCount]
    /\ m.nor.view = [byteOffset |-> 12 * VertexCount,
                     byteLength |-> 12 * VertexCount]
    /\ m.idx.view = [byteOffset |-> 24 * VertexCount,
                     byteLength |-> 2 * IndexCount]
    /\ m.bufferLength = 24 * VertexCount + 2 * IndexCount
    /\ m.bufferLength <= DeclaredBinLength
    /\ m.pos.count * 12 = m.pos.view.byteLength
    /\ m.nor.count * 12 = m.nor.view.byteLength
    /\ m.idx.count * 2 = m.idx.view.byteLength
    /\ \A k \in 1..(3 * VertexCount) :
           /\ IsFloat32Of(StoredFloat(m.pos.view.byteOffset, k),
                          At(mesh.vertices, k))
           /\ IsFloat32Of(StoredFloat(m.nor.view.byteOffset, k),
                          At(mesh.normals, k))
    /\ \A k \in 1..IndexCount :
           StoredIndex(m.idx.view.byteOffset, k) = At(mesh.indices, k) % 65536

\* C8: the binary payload is the positions, then the normals, then the
\* indices, and the metadata says so: the positions view is [0, 12V), the
\* normals view [12V, 24V), the indices view [24V, 24V + 2I); the views are
\* contiguous and cover buffers[0].byteLength exactly; each accessor's count
\* times its element size (12 bytes for the VEC3 floats, 2 for the indices)
\* is the byteLength of its view.
C8_BinaryLayout == Exported => LayoutHolds(Metadata(JsonPayload))

C8_Witness ==
    /\ Exported
    /\ VertexCount >= 3
    /\ IndexCount >= 3
    /\ MetaAccessor(JsonPayload, 1).view.byteOffset = 24 * VertexCount
    /\ StoredFloat(0, 1) # At(mesh.vertices, 1)
    /\ StoredIndex(24 * VertexCount, IndexCount) = VertexCount - 1

\* the name occurs once in the JSON text t, inside accessors[1]
OnPositionsAccessorOnly(t, name) ==
    /\ Cardinality(Occurrences(t, name)) = 1
    /\ Cardinality(Occurrences(t, NameBufferView)) = 3
    /\ \A p \in Occurrences(t, name) :
           /\ Nth(Occurrences(t, NameBufferView), 2) < p
           /\ p < Nth(Occurrences(t, NameBufferView), 3)

\* lo and hi are, axis by axis, the least and the greatest coordinate of the
\* vertices stored at byte offset o of the binary payload
BoundsHold(lo, hi, o) ==
    \A j \in 1..3 :
        /\ \A v \in 0..(VertexCount - 1) :
               /\ lo[j] <= StoredFloat(o, 3 * v + j)
               /\ hi[j] >= StoredFloat(o, 3 * v + j)
        /\ \E v \in 0..(VertexCount - 1) : lo[j] = StoredFloat(o, 3 * v + j)
        /\ \E v \in 0..(VertexCount - 1) : hi[j] = StoredFloat(o, 3 * v + j)

\* C9: the min and max the positions accessor reports are, axis by axis, the
\* least and the greatest coordinate of the vertices stored in the positions
\* view, and only the positions accessor has a min and a max.
C9_PositionBounds ==
    Exported =>
        /\ OnPositionsAccessorOnly(JsonPayload, NameMin)
        /\ OnPositionsAccessorOnly(JsonPayload, NameMax)
        /\ VertexCount > 0 =>
               BoundsHold(MetaBounds(JsonPayload, NameMin),
                          MetaBounds(JsonPayload, NameMax),
                          MetaAccessor(JsonPayload, 2).view.byteOffset)

\* lo and hi differ, have both signs, and come from different vertices: the
\* first vertex has the greatest x, the last one the least
BoundsVaried(lo, hi) ==
    /\ lo[1] < 0 /\ hi[1] > 0
    /\ lo[2] < 0
    /\ lo[3] < hi[3]
    /\ StoredFloat(0, 1) = hi[1]
    /\ StoredFloat(0, 3 * (VertexCount - 1) + 1) = lo[1]

C9_Witness ==
    /\ Exported
    /\ VertexCount >= 2
    /\ BoundsVaried(MetaBounds(JsonPayload, NameMin),
                    MetaBounds(JsonPayload, NameMax))

\* the byte string d is a JSON number: digits, with an optional sign,
\* fraction and exponent, and no other text (null is none)
IsJsonNumber(d) ==
    /\ Len(d) > 0
    /\ \A k \in 1..Len(d) : d[k] \in (48..57) \cup {43, 45, 46, 69, 101}
    /\ \E k \in 1..Len(d) : d[k] \in 48..57

\* the array that follows the name in the JSON text t is three numbers
ThreeNumbers(t, name) ==
    LET e == Vec3Text(t, Nth(Occurrences(t, name), 1) + Len(name))
    IN  \A j \in 1..3 : IsJsonNumber(e[j])

\* the container is complete and its lengths agree, with an empty binary
\* chunk, and the metadata m has an empty buffer and three accessors of
\* count 0
MinimalContainer(m) ==
    /\ Length(blob) >= BinAt
    /\ Slice(blob, 1, 4) = <<103, 108, 84, 70>>
    /\ U32At(blob, 8) = Length(blob)
    /\ Slice(blob, 17, 20) = <<74, 83, 79, 78>>
    /\ Slice(blob, BinHeaderAt + 5, BinHeaderAt + 8) = <<66, 73, 78, 0>>
    /\ DeclaredBinLength = 0
    /\ Length(blob) = BinAt
    /\ m.bufferLength = 0
    /\ <<m.idx.count, m.pos.count, m.nor.count>> = <<0, 0, 0>>
    /\ <<m.idx.view.byteLength, m.pos.view.byteLength, m.nor.view.byteLength>>
           = <<0, 0, 0>>

\* the mesh that was exported has no vertex and no index
EmptyExported == Exported /\ VertexCount = 0 /\ IndexCount = 0

\* C12: exportGLB of a mesh with no vertex and no index returns a complete
\* minimal container (consistent lengths, binary chunk length 0,
\* buffers[0].byteLength 0, three accessors of count 0) in which the min and
\* the max of the positions accessor are three numbers each.
C12_EmptyMeshContainer ==
    EmptyExported =>
        /\ MinimalContainer(Metadata(JsonPayload))
        /\ ThreeNumbers(JsonPayload, NameMin)
        /\ ThreeNumbers(JsonPayload, NameMax)

-----------------------------------------------------------------------------
(* Properties of the App component *)

RadiiOrdered(g) == g.innerRadius < g.outerRadius

\* the generator has been invoked (by handleDownload, under HostSpec)
GeneratorInvoked == phase # "idle"

\* a step changes a stored parameter only if an accepted call named it
\* since the last render, and a call itself changes no stored parameter
OnlyNamedChange ==
    /\ pendingUpdates' # <<>> => gearParams' = gearParams
    /\ \A f \in DOMAIN gearParams :
           gearParams'[f] # gearParams[f] =>
               \E k \in 1..Len(pendingUpdates) :
                   /\ pendingUpdates[k].param = f
                   /\ ~Rejected(gearParams, f, pendingUpdates[k].value)

\* C13: after any sequence of handleParamChange calls, two or more before a
\* render included, the stored gearParams have innerRadius < outerRadius, so
\* handleDownload never invokes the generator with outerRadius <=
\* innerRadius; a rejected call changes no parameter and an accepted call
\* changes only the parameter it names.
C13_HostKeepsRadiiOrdered ==
    /\ [](RadiiOrdered(gearParams))
    /\ [](GeneratorInvoked => RadiiOrdered(params))
    /\ [][OnlyNamedChange]_vars

=============================================================================
